---------------------------- MODULE Spec2Model ----------------------------
(***************************************************************************)
(* Kalda-Tech membership system: the sequential identifier allocation of   *)
(* Member / PaymentReceipt / MembershipCertificate (models.py) and the     *)
(* member status lifecycle driven by the views (views.py) and the admin    *)
(* actions (admin.py).                                                     *)
(*                                                                         *)
(* Identifiers are modelled as Python strings: sequences of one-character  *)
(* strings, formatted, split, parsed and ordered character by character.   *)
(* Dates are day numbers counted from 2025-01-01 (day 0); a nullable       *)
(* column holds <<>> for NULL and <<v>> for the value v.                   *)
(***************************************************************************)
EXTENDS Integers, Sequences, FiniteSets, TLC

(* ------------------------------ bounds -------------------------------- *)

\* Rows inserted, over all tables, in one run.
MaxCreates == 3

\* Concurrent save() calls in flight.
NumCallers == 2

\* Rows of the audit log in one run.
MaxAudit == 2

(* ------------------------- program constants -------------------------- *)

\* The width of the "{new_number:04d}" format field.
PadWidth == 4

\* timedelta(days=duration_months * 30)
DaysPerMonth == 30

(* --------------------------- Python strings --------------------------- *)

Digits == <<"0", "1", "2", "3", "4", "5", "6", "7", "8", "9">>

Upper == <<"A", "B", "C", "D", "E", "F", "G", "H", "I", "J", "K", "L", "M",
           "N", "O", "P", "Q", "R", "S", "T", "U", "V", "W", "X", "Y", "Z">>

IsDigit(c) == \E i \in 1..10 : Digits[i] = c

DigitVal(c) == (CHOOSE i \in 1..10 : Digits[i] = c) - 1

\* The code point a string comparison orders by: '-' < '0'..'9' < 'A'..'Z'.
CharCode(c) ==
    IF c = "-" THEN 45
    ELSE IF IsDigit(c) THEN 48 + DigitVal(c)
    ELSE 64 + (CHOOSE i \in 1..26 : Upper[i] = c)

\* str(n) for n >= 0.
RECURSIVE IntToStr(_)
IntToStr(n) ==
    IF n < 10 THEN <<Digits[n + 1]>>
    ELSE IntToStr(n \div 10) \o <<Digits[(n % 10) + 1]>>

\* The "0w" part of a format field: zero-fill on the left up to width w,
\* never truncating.
RECURSIVE ZeroPad(_, _)
ZeroPad(s, w) == IF Len(s) >= w THEN s ELSE ZeroPad(<<"0">> \o s, w)

\* int(s) for a string of decimal digits.
RECURSIVE ParseInt(_)
ParseInt(s) ==
    IF Len(s) = 0 THEN 0
    ELSE 10 * ParseInt(SubSeq(s, 1, Len(s) - 1)) + DigitVal(s[Len(s)])

\* s.split('-')[-1]: what follows the last '-'.
RECURSIVE LastSegment(_)
LastSegment(s) ==
    IF Len(s) = 0 THEN <<>>
    ELSE IF s[Len(s)] = "-" THEN <<>>
    ELSE LastSegment(SubSeq(s, 1, Len(s) - 1)) \o <<s[Len(s)]>>

\* s.startswith(p)
StartsWith(s, p) == Len(s) >= Len(p) /\ SubSeq(s, 1, Len(p)) = p

\* a < b in the ordering of ORDER BY on a character column.
RECURSIVE StrLess(_, _)
StrLess(a, b) ==
    IF Len(b) = 0 THEN FALSE
    ELSE IF Len(a) = 0 THEN TRUE
    ELSE IF a[1] = b[1] THEN StrLess(Tail(a), Tail(b))
    ELSE CharCode(a[1]) < CharCode(b[1])

\* .order_by('-<column>').first() over a non-empty set of column values.
LastByString(S) == CHOOSE x \in S : \A y \in S : y = x \/ StrLess(y, x)

(* ------------------------------ the clock ----------------------------- *)

\* The instants at which requests are served, as day numbers.
SampleDays == {0, 365}

\* timezone.now().year (2025 and 2026 have 365 days).
YearOf(d) == 2025 + (d \div 365)

(* --------------------------- the allocator ---------------------------- *)

KTS == <<"K", "T", "S">>
RCT == <<"R", "C", "T">>
CERT == <<"C", "E", "R", "T">>

Kinds == {"member", "receipt", "certificate"}

\* The tables with an auto-increment primary key that rows are deleted from.
Tables == Kinds \cup {"payment", "document", "renewal"}

PrefixOf(kind) ==
    IF kind = "member" THEN KTS ELSE IF kind = "receipt" THEN RCT ELSE CERT

\* f'KTS-{year}', the argument of <column>__startswith.
ScopePrefix(kind, year) == PrefixOf(kind) \o <<"-">> \o IntToStr(year)

\* f'KTS-{year}-{new_number:04d}'
FormatId(kind, year, n) ==
    ScopePrefix(kind, year) \o <<"-">> \o ZeroPad(IntToStr(n), PadWidth)

\* The allocator with the first number of a scope off by one.
NextNumberFromZero(ids, kind, year) ==
    LET matching == {s \in ids : StartsWith(s, ScopePrefix(kind, year))}
    IN  IF matching = {} THEN 0
        ELSE ParseInt(LastSegment(LastByString(matching))) + 1

\* The number save() computes from the identifiers stored in the table:
\* that of the last row by string order within the year's prefix, plus one,
\* or 1 when the prefix matches no row.
NextNumber(ids, kind, year) ==
    LET matching == {s \in ids : StartsWith(s, ScopePrefix(kind, year))}
    IN  IF matching = {} THEN 1
        ELSE ParseInt(LastSegment(LastByString(matching))) + 1


(* ------------------------------- state -------------------------------- *)

VARIABLES
    now,          \* timezone.now(), as a day number
    members,      \* table members: primary key -> row
    receipts,     \* table payment_receipts: primary key -> row
    certificates, \* table membership_certificates: primary key -> row
    autoinc,      \* the last primary key each table handed out
    created,      \* rows inserted in this run (bounds the run)
    issued,       \* history: every identifier a row was ever stored with
    everApproved, \* history: the members whose status was ever 'approved'
    inst,         \* the model instances of the save() calls in flight
    lastFailed,   \* history: per table, the identifier of the creation that
                  \* failed since the last successful one (<<>> when none)
    last,         \* the request served by the last step and its outcome
    audit,        \* table audit_logs, in the order the rows were written
    notifications,\* table notifications, in the order the rows were written
    payments,     \* table payments: primary key -> row
    users,        \* table users: the accounts that exist
    documents,    \* table member_documents: primary key -> row
    renewals,     \* table membership_renewals: primary key -> row
    catalog       \* tables membership_categories, countries and regions

vars == <<now, members, receipts, certificates, autoinc, created, issued,
          everApproved, inst, lastFailed, last, audit, notifications,
          payments, users, documents, renewals, catalog>>

\* The tables only the admin site writes.
rest == <<documents, renewals, catalog>>

\* The tables the allocator and its callers never write.
side == <<audit, notifications, payments, users, documents, renewals, catalog>>

Null == <<>>
Some(v) == <<v>>

\* The users member profiles belong to, and the users who act on them.
MemberUsers == {"u1", "u2", "u3"}
Staff == {"admin", "staff"}
NoUser == "none"

Statuses == {"pending", "approved", "rejected", "suspended", "expired"}

\* MembershipCategory rows, by name, and their duration_months (12 is the
\* column default).
Categories == {"annual", "monthly"}

\* duration_months is an IntegerField: a category row may also hold zero or
\* a negative number of months.
AcceptedCategories == Categories \cup {"same_day", "backdated"}

DurationMonths(cat) ==
    IF cat = "annual" THEN 12
    ELSE IF cat = "monthly" THEN 1
    ELSE IF cat = "same_day" THEN 0
    ELSE -1

Reasons == {"", "incomplete"}

Callers == 1..NumCallers

IdColumn(kind) ==
    IF kind = "member" THEN "membership_id"
    ELSE IF kind = "receipt" THEN "receipt_number"
    ELSE "certificate_number"

Table(kind) ==
    IF kind = "member" THEN members
    ELSE IF kind = "receipt" THEN receipts
    ELSE certificates

\* The identifiers stored in a table.
StoredIds(kind) == {Table(kind)[k][IdColumn(kind)] : k \in DOMAIN Table(kind)}

\* The rows of the countries table, and those of the regions table with
\* the country each belongs to; every member lives in Nairobi.
Countries == {"KE", "UG"}
RegionCountry == [r \in {"NBO", "KLA"} |-> IF r = "NBO" THEN "KE" ELSE "UG"]
HomeCountry == "KE"
HomeRegion == "NBO"

\* A freshly constructed Member: the column defaults.
NewMember(user, cat) ==
    [membership_id |-> <<>>, user |-> user, category |-> cat,
     country |-> HomeCountry, region |-> HomeRegion,
     status |-> "pending", approval_date |-> Null, expiry_date |-> Null,
     approved_by |-> NoUser, rejection_reason |-> ""]

NewReceipt(payment) ==
    [receipt_number |-> <<>>, payment |-> payment, sent_via_email |-> FALSE]

NewCertificate(member) ==
    [certificate_number |-> <<>>, member |-> member, is_active |-> TRUE]

\* The payments a receipt can be issued for.
PaymentPks == {1, 2}

\* What the last request answered: the operation, the table, the error it
\* ended in ("none" when it did not) and the rows it wrote.
Did(op, kind, err, affected) ==
    [op |-> op, kind |-> kind, err |-> err, affected |-> affected]

(* --------------------------- Model.save() ----------------------------- *)

\* save() without its "if not self.<id>:" test: every save allocates.
AssignedIdAlways(current, kind, day) ==
    FormatId(kind, YearOf(day), NextNumber(StoredIds(kind), kind, YearOf(day)))

\* The first half of save(): "if not self.<id>:" computes the identifier
\* from the rows stored now; an instance that already carries one keeps it.
AssignedId(current, kind, day) ==
    IF current = <<>>
    THEN FormatId(kind, YearOf(day), NextNumber(StoredIds(kind), kind, YearOf(day)))
    ELSE current

\* An INSERT that checks no unique constraint on the identifier column.
InsertErrorNoIdCheck(kind, row) ==
    IF kind = "member"
       /\ \E k \in DOMAIN members : members[k].user = row.user
    THEN "dup_user"
    ELSE IF kind = "receipt"
            /\ \E k \in DOMAIN receipts : receipts[k].payment = row.payment
         THEN "dup_payment"
    ELSE "none"

\* The unique constraints an INSERT of `row` into the table checks.
InsertError(kind, row) ==
    IF row[IdColumn(kind)] \in StoredIds(kind) THEN "dup_id"
    ELSE IF kind = "member"
            /\ \E k \in DOMAIN members : members[k].user = row.user
         THEN "dup_user"
    ELSE IF kind = "receipt"
            /\ \E k \in DOMAIN receipts : receipts[k].payment = row.payment
         THEN "dup_payment"
    ELSE "none"

\* f with the row r stored under the key k.
Put(f, k, r) == [x \in DOMAIN f \cup {k} |-> IF x = k THEN r ELSE f[x]]

\* f without the keys in D.
Drop(f, D) == [x \in DOMAIN f \ D |-> f[x]]

\* super().save() of an instance that has no primary key yet: INSERT, or
\* IntegrityError with the table left as it was.
InsertRow(kind, row) ==
    LET err == InsertError(kind, row)
        pk  == autoinc[kind] + 1
        id  == row[IdColumn(kind)]
    IN  /\ IF err = "none"
           THEN /\ members' = IF kind = "member" THEN Put(members, pk, row) ELSE members
                /\ receipts' = IF kind = "receipt" THEN Put(receipts, pk, row) ELSE receipts
                /\ certificates' = IF kind = "certificate"
                                   THEN Put(certificates, pk, row) ELSE certificates
                /\ autoinc' = [autoinc EXCEPT ![kind] = pk]
                /\ created' = created + 1
                /\ issued' = issued \cup {id}
                /\ lastFailed' = [lastFailed EXCEPT ![kind] = <<>>]
           ELSE /\ UNCHANGED <<members, receipts, certificates, autoinc, created, issued>>
                /\ lastFailed' = [lastFailed EXCEPT ![kind] = id]
        /\ everApproved' = everApproved
                           \cup (IF kind = "member" /\ err = "none" /\ row.status = "approved"
                                 THEN {pk} ELSE {})

\* save() of a new instance, served alone: identifier, then INSERT.
SaveNew(kind, fresh) ==
    LET id  == AssignedId(fresh[IdColumn(kind)], kind, now)
        row == [fresh EXCEPT ![IdColumn(kind)] = id]
    IN  /\ created < MaxCreates
        /\ InsertRow(kind, row)
        /\ last' = Did("create", kind, InsertError(kind, row),
                       IF InsertError(kind, row) = "none" THEN 1 ELSE 0)
        /\ UNCHANGED <<now, inst, side>>

CreateMember(user, cat) == SaveNew("member", NewMember(user, cat))

CreateReceipt(payment) == SaveNew("receipt", NewReceipt(payment))

CreateCertificate(member) ==
    member \in DOMAIN members /\ SaveNew("certificate", NewCertificate(member))

\* save() of a stored row after a change form edited one of its other
\* columns: the identifier test runs again, then UPDATE.
ChangeReceipt ==
    \E k \in DOMAIN receipts :
        LET row == [receipts[k] EXCEPT !.sent_via_email = ~@]
            id  == AssignedId(row.receipt_number, "receipt", now)
        IN  /\ receipts' = [receipts EXCEPT ![k] = [row EXCEPT !.receipt_number = id]]
            /\ issued' = issued \cup {id}
            /\ last' = Did("change", "receipt", "none", 1)
            /\ UNCHANGED <<now, members, certificates, autoinc, created,
                           everApproved, inst, lastFailed, side>>

ChangeCertificate ==
    \E k \in DOMAIN certificates :
        LET row == [certificates[k] EXCEPT !.is_active = ~@]
            id  == AssignedId(row.certificate_number, "certificate", now)
        IN  /\ certificates' = [certificates EXCEPT ![k] = [row EXCEPT !.certificate_number = id]]
            /\ issued' = issued \cup {id}
            /\ last' = Did("change", "certificate", "none", 1)
            /\ UNCHANGED <<now, members, receipts, autoinc, created,
                           everApproved, inst, lastFailed, side>>

(* ------------------------------ deletion ------------------------------ *)

\* A cascade that finds no row to take along.
OwnedByNone(table, k) == {}

\* The rows of a table whose `member` column refers to the member k: what
\* on_delete=CASCADE collects when k is deleted.
OwnedBy(table, k) == {x \in DOMAIN table : table[x].member = k}

\* Deleting a member: its certificates, payments, documents and renewals go
\* with it, and with a payment its receipt and its renewal
\* (on_delete=CASCADE).
DeleteMember ==
    \E k \in DOMAIN members :
        LET paid == OwnedBy(payments, k)
        IN  /\ members' = Drop(members, {k})
            /\ certificates' = Drop(certificates, OwnedBy(certificates, k))
            /\ payments' = Drop(payments, paid)
            /\ receipts' = Drop(receipts,
                                {r \in DOMAIN receipts : receipts[r].payment \in paid})
            /\ documents' = Drop(documents, OwnedBy(documents, k))
            /\ renewals' = Drop(renewals,
                                OwnedBy(renewals, k)
                                \cup {x \in DOMAIN renewals :
                                         renewals[x].payment \in {Some(p) : p \in paid}})
            /\ last' = Did("delete", "member", "none", 1)
            /\ UNCHANGED <<now, autoinc, created, issued, everApproved,
                           inst, lastFailed, audit, notifications, users, catalog>>

DeleteReceipt ==
    \E k \in DOMAIN receipts :
        /\ receipts' = Drop(receipts, {k})
        /\ last' = Did("delete", "receipt", "none", 1)
        /\ UNCHANGED <<now, members, certificates, autoinc, created, issued,
                       everApproved, inst, lastFailed, side>>

DeleteCertificate ==
    \E k \in DOMAIN certificates :
        /\ certificates' = Drop(certificates, {k})
        /\ last' = Did("delete", "certificate", "none", 1)
        /\ UNCHANGED <<now, members, receipts, autoinc, created, issued,
                       everApproved, inst, lastFailed, side>>

(* ------------------------------ the clock ----------------------------- *)

Tick(d) ==
    /\ d > now
    /\ now' = d
    /\ last' = Did("tick", "none", "none", 0)
    /\ UNCHANGED <<members, receipts, certificates, autoinc, created, issued,
                   everApproved, inst, lastFailed, side>>

(* --------------------------- initial states --------------------------- *)

\* A caller with no save() in flight.
Idle == [pc |-> "idle", kind |-> "none", row |-> <<>>, err |-> "none"]

\* The members table is empty, or holds the one row left of a year in which
\* every number up to the last of the 4-digit field was issued.
SeedNumbers == {0, 10 ^ PadWidth - 1}

InitWith(seed) ==
    /\ now = 0
    /\ members = IF seed = 0 THEN <<>>
                 ELSE Put(<<>>, seed,
                          [NewMember("u1", "annual") EXCEPT
                               !.membership_id = FormatId("member", YearOf(0), seed)])
    /\ receipts = <<>>
    /\ certificates = <<>>
    /\ autoinc = [k \in Tables |-> IF k = "member" THEN seed ELSE 0]
    /\ created = 0
    /\ issued = {members[k].membership_id : k \in DOMAIN members}
    /\ everApproved = {}
    /\ inst = [c \in Callers |-> Idle]
    /\ lastFailed = [k \in Kinds |-> <<>>]
    /\ last = Did("init", "none", "none", 0)
    /\ audit = <<>>
    /\ notifications = <<>>
    /\ payments = <<>>
    /\ users = Staff \cup MemberUsers
    /\ documents = <<>>
    /\ renewals = <<>>
    /\ catalog = [categories |-> AcceptedCategories,
                  countries |-> Countries,
                  regions |-> RegionCountry]

Init == \E seed \in SeedNumbers : InitWith(seed)

(* ---------------- the allocator, one request at a time ---------------- *)

AllocNext ==
    \/ \E u \in MemberUsers : CreateMember(u, "annual")
    \/ \E p \in PaymentPks : CreateReceipt(p)
    \/ \E m \in DOMAIN members : CreateCertificate(m)
    \/ ChangeReceipt
    \/ ChangeCertificate
    \/ DeleteMember
    \/ DeleteReceipt
    \/ DeleteCertificate
    \/ Tick(365)

AllocSpec == Init /\ [][AllocNext]_vars


(* ------------------- the allocator, concurrent callers ---------------- *)
(* Each caller runs save() on its own instance. Nothing in save() locks     *)
(* the table or opens a transaction around the SELECT and the INSERT, so    *)
(* other requests are served between the two.                               *)

\* save(), up to the call of super().save(): the instance gets its
\* identifier from the rows committed at this moment.
Begin(c, kind, fresh) ==
    /\ inst[c].pc = "idle"
    /\ created < MaxCreates
    /\ kind = "certificate" => fresh.member \in DOMAIN members
    /\ inst' = [inst EXCEPT ![c] =
                   [pc |-> "insert", kind |-> kind, err |-> "none",
                    row |-> [fresh EXCEPT ![IdColumn(kind)] =
                                 AssignedId(fresh[IdColumn(kind)], kind, now)]]]
    /\ last' = Did("begin", kind, "none", 0)
    /\ UNCHANGED <<now, members, receipts, certificates, autoinc, created,
                   issued, everApproved, lastFailed, side>>

\* super().save(): the INSERT commits, or raises IntegrityError and leaves
\* the instance as it is, identifier included.
Commit(c) ==
    LET kind == inst[c].kind
        row  == inst[c].row
        err  == InsertError(kind, row)
    IN  /\ inst[c].pc = "insert"
        /\ InsertRow(kind, row)
        /\ inst' = [inst EXCEPT ![c] =
                       IF err = "none" THEN Idle
                       ELSE [pc |-> "failed", kind |-> kind, row |-> row, err |-> err]]
        /\ last' = Did("create", kind, err, IF err = "none" THEN 1 ELSE 0)
        /\ UNCHANGED <<now, side>>

\* The caller calls save() again on the instance whose INSERT failed.
Retry(c) ==
    LET kind == inst[c].kind
        row  == inst[c].row
    IN  /\ inst[c].pc = "failed"
        /\ inst' = [inst EXCEPT ![c] =
                       [pc |-> "insert", kind |-> kind, err |-> "none",
                        row |-> [row EXCEPT ![IdColumn(kind)] =
                                     AssignedId(row[IdColumn(kind)], kind, now)]]]
        /\ last' = Did("retry", kind, "none", 0)
        /\ UNCHANGED <<now, members, receipts, certificates, autoinc, created,
                       issued, everApproved, lastFailed, side>>

\* The request ends with the error; the instance is dropped.
GiveUp(c) ==
    /\ inst[c].pc = "failed"
    /\ inst' = [inst EXCEPT ![c] = Idle]
    /\ last' = Did("giveup", inst[c].kind, "none", 0)
    /\ UNCHANGED <<now, members, receipts, certificates, autoinc, created,
                   issued, everApproved, lastFailed, side>>

ConcNext ==
    \/ \E c \in Callers, u \in MemberUsers : Begin(c, "member", NewMember(u, "annual"))
    \/ \E c \in Callers, p \in PaymentPks : Begin(c, "receipt", NewReceipt(p))
    \/ \E c \in Callers, m \in DOMAIN members : Begin(c, "certificate", NewCertificate(m))
    \/ \E c \in Callers : Commit(c)
    \/ \E c \in Callers : Retry(c)
    \/ \E c \in Callers : GiveUp(c)

ConcSpec == Init /\ [][ConcNext]_vars


(* ------------------------- the member lifecycle ----------------------- *)

\* The expiry date by calendar years of 365 days instead of 30-day months.
ExpiryByCalendar(day, cat) == day + (DurationMonths(cat) * 365) \div 12

\* timezone.now().date() + timedelta(days=duration_months * 30)
ExpiryFrom(day, cat) == day + DurationMonths(cat) * DaysPerMonth

\* Activity read off the stored status alone.
IsActiveByStatus(m, today) == m.status = "approved"

\* Member.is_membership_active(), on the day `today`.
IsMembershipActive(m, today) ==
    IF m.status # "approved" THEN FALSE
    ELSE IF m.expiry_date # Null /\ m.expiry_date[1] < today THEN FALSE
    ELSE TRUE

\* The assignments both approval paths make to a member, then member.save()
\* (whose identifier test runs again on the loaded row).
Approved(m, actor) ==
    LET row == [m EXCEPT !.status = "approved",
                         !.approval_date = Some(now),
                         !.approved_by = actor,
                         !.expiry_date = Some(ExpiryFrom(now, m.category))]
    IN  [row EXCEPT !.membership_id = AssignedId(row.membership_id, "member", now)]

\* An admin approval that records no approver.
ApprovedAnonymously(m, actor) ==
    LET row == [m EXCEPT !.status = "approved",
                         !.approval_date = Some(now),
                         !.expiry_date = Some(ExpiryFrom(now, m.category))]
    IN  [row EXCEPT !.membership_id = AssignedId(row.membership_id, "member", now)]

\* The loop body of approve_members: status, approved_by, approval_date,
\* expiry_date = today + timezone.timedelta(days=duration_months * 30),
\* then member.save().
ApprovedByAdmin(m, actor) ==
    LET row == [m EXCEPT !.status = "approved",
                         !.approved_by = actor,
                         !.approval_date = Some(now),
                         !.expiry_date = Some(now + DurationMonths(m.category) * DaysPerMonth)]
    IN  [row EXCEPT !.membership_id = AssignedId(row.membership_id, "member", now)]

\* The dashboard count that takes every approved member for active.
ActiveMembersByStatus(today) ==
    {k \in DOMAIN members : members[k].status = "approved"}

\* admin_dashboard: Member.objects.filter(status='approved',
\* expiry_date__gte=today), whose .count() is active_members.
ActiveMembers(today) ==
    {k \in DOMAIN members :
        /\ members[k].status = "approved"
        /\ members[k].expiry_date # Null
        /\ members[k].expiry_date[1] >= today}

\* reject_member's assignments, then member.save().
RejectedByView(m, reason) ==
    LET row == [m EXCEPT !.status = "rejected", !.rejection_reason = reason]
    IN  [row EXCEPT !.membership_id = AssignedId(row.membership_id, "member", now)]

\* reject_members: .update(status='rejected', approved_by=request.user)
RejectedByAdmin(m, actor) == [m EXCEPT !.status = "rejected", !.approved_by = actor]

\* A suspension that also clears the expiry date.
SuspendedAndCleared(m) == [m EXCEPT !.status = "suspended", !.expiry_date = Null]

\* A suspension that puts the member back to pending.
Reopened(m) == [m EXCEPT !.status = "pending"]

\* suspend_members: .update(status='suspended')
Suspended(m) == [m EXCEPT !.status = "suspended"]

\* AuditLog.objects.create(user=request.user, action=..., model_name=...,
\* object_id=str(<pk>)): the columns that tell the rows apart.
AuditRow(user, action, model, object) ==
    [user |-> user, action |-> action, model_name |-> model, object_id |-> object]

\* Notification.objects.create(recipient=member.user,
\* notification_type='approval', title=...)
NotificationRow(recipient, title) ==
    [recipient |-> recipient, notification_type |-> "approval", title |-> title,
     is_read |-> FALSE]

\* An action that applies to its whole selection, whatever the status.
SelectedIn(sel) == sel

\* An action that filters nothing out of its selection.
AnyStatusIn(sel) == sel

\* The members of the selection the status filter of an action keeps.
PendingIn(sel) == {k \in sel : members[k].status = "pending"}
NotPendingIn(sel) == {k \in sel : members[k].status # "pending"}

\* The frame of a request that writes only rows of the members table.
MembersOnly(op, err, affected) ==
    /\ everApproved' = everApproved
                       \cup {k \in DOMAIN members' : members'[k].status = "approved"}
    /\ last' = Did(op, "member", err, affected)
    /\ UNCHANGED <<now, receipts, certificates, autoinc, created, issued,
                   inst, lastFailed, payments, users, rest>>

\* POST /admin/members/<k>/approve/: 404 unless the member is pending.
ApproveView(actor, k) ==
    /\ k \in DOMAIN members
    /\ members[k].status = "pending" => Len(audit) < MaxAudit
    /\ IF members[k].status = "pending"
       THEN /\ members' = [members EXCEPT ![k] = Approved(@, actor)]
            /\ audit' = Append(audit, AuditRow(actor, "approve", "Member", k))
            /\ notifications' = Append(notifications,
                                       NotificationRow(members[k].user, "Membership Approved"))
            /\ MembersOnly("approve_view", "none", 1)
       ELSE /\ members' = members
            /\ UNCHANGED <<audit, notifications>>
            /\ MembersOnly("approve_view", "404", 0)

\* POST /admin/members/<k>/reject/: 404 unless the member is pending.
RejectView(actor, k, reason) ==
    /\ k \in DOMAIN members
    /\ members[k].status = "pending" => Len(audit) < MaxAudit
    /\ IF members[k].status = "pending"
       THEN /\ members' = [members EXCEPT ![k] = RejectedByView(@, reason)]
            /\ audit' = Append(audit, AuditRow(actor, "reject", "Member", k))
            /\ notifications' = Append(notifications,
                                       NotificationRow(members[k].user,
                                                       "Membership Application Rejected"))
            /\ MembersOnly("reject_view", "none", 1)
       ELSE /\ members' = members
            /\ UNCHANGED <<audit, notifications>>
            /\ MembersOnly("reject_view", "404", 0)

\* The admin action "Approve selected members".
ApproveAdmin(actor, sel) ==
    /\ sel # {} /\ sel \subseteq DOMAIN members
    /\ members' = [k \in DOMAIN members |->
                      IF k \in PendingIn(sel) THEN ApprovedByAdmin(members[k], actor)
                      ELSE members[k]]
    /\ UNCHANGED <<audit, notifications>>
    /\ MembersOnly("approve_admin", "none", Cardinality(PendingIn(sel)))

\* The admin action "Reject selected members".
RejectAdmin(actor, sel) ==
    /\ sel # {} /\ sel \subseteq DOMAIN members
    /\ members' = [k \in DOMAIN members |->
                      IF k \in PendingIn(sel) THEN RejectedByAdmin(members[k], actor)
                      ELSE members[k]]
    /\ UNCHANGED <<audit, notifications>>
    /\ MembersOnly("reject_admin", "none", Cardinality(PendingIn(sel)))

\* The admin action "Suspend selected members".
SuspendAdmin(actor, sel) ==
    /\ sel # {} /\ sel \subseteq DOMAIN members
    /\ members' = [k \in DOMAIN members |->
                      IF k \in NotPendingIn(sel) THEN Suspended(members[k])
                      ELSE members[k]]
    /\ UNCHANGED <<audit, notifications>>
    /\ MembersOnly("suspend_admin", "none", Cardinality(NotPendingIn(sel)))

\* The admin change form of a member: status and expiry_date are among its
\* editable fields (membership_id and approval_date are read-only); the
\* form saves the row with save().
AdminChangeMember(actor, k, status, expiry) ==
    /\ k \in DOMAIN members
    /\ LET row == [members[k] EXCEPT !.status = status, !.expiry_date = expiry]
       IN  members' = [members EXCEPT ![k] =
                          [row EXCEPT !.membership_id =
                               AssignedId(row.membership_id, "member", now)]]
    /\ UNCHANGED <<audit, notifications>>
    /\ MembersOnly("change", "none", 1)

\* What a change form is given for expiry_date: nothing, or a date.
FormDates == {Null, Some(now)}

Selections == SUBSET (DOMAIN members) \ {{}}

\* The users who register in the runs of the status lifecycle.
Applicants == {"u1", "u2"}

LifeInit == InitWith(0)

LifeNext ==
    \/ \E c \in Categories : CreateMember("u1", c)
    \/ CreateMember("u2", "annual")
    \/ \E a \in Staff, k \in DOMAIN members : ApproveView(a, k)
    \/ \E a \in Staff, k \in DOMAIN members : RejectView(a, k, "incomplete")
    \/ \E sel \in Selections : ApproveAdmin("admin", sel)
    \/ \E sel \in Selections : RejectAdmin("admin", sel)
    \/ \E sel \in Selections : SuspendAdmin("admin", sel)
    \/ \E d \in SampleDays : Tick(d)

LifeSpec == LifeInit /\ [][LifeNext]_vars

\* The lifecycle with the admin change form of a member beside it.
FormNext ==
    \/ CreateMember("u1", "annual")
    \/ \E k \in DOMAIN members : ApproveView("admin", k)
    \/ \E k \in DOMAIN members : RejectView("admin", k, "incomplete")
    \/ \E sel \in Selections : SuspendAdmin("admin", sel)
    \/ \E k \in DOMAIN members, st \in Statuses, e \in FormDates :
           AdminChangeMember("admin", k, st, e)

FormSpec == LifeInit /\ [][FormNext]_vars

\* Every request that saves or updates a stored row of the three tables
\* that carry an allocated identifier.
RowNext ==
    \/ \E u \in Applicants : CreateMember(u, "annual")
    \/ \E p \in PaymentPks : CreateReceipt(p)
    \/ \E m \in DOMAIN members : CreateCertificate(m)
    \/ ChangeReceipt
    \/ ChangeCertificate
    \/ \E k \in DOMAIN members : ApproveView("admin", k)
    \/ \E k \in DOMAIN members : RejectView("admin", k, "incomplete")
    \/ \E sel \in Selections : ApproveAdmin("admin", sel)
    \/ \E sel \in Selections : RejectAdmin("admin", sel)
    \/ \E sel \in Selections : SuspendAdmin("admin", sel)
    \/ \E k \in DOMAIN members :
           AdminChangeMember("admin", k, members[k].status, members[k].expiry_date)

RowSpec == LifeInit /\ [][RowNext]_vars

(* ------------------------ the member add form ------------------------- *)

\* MemberAdmin, add view: status, expiry_date and approved_by are editable
\* fields of the form (membership_id and approval_date are read-only); the
\* form saves the new instance with save().
AdminAddMember(user, cat, status, expiry, approver) ==
    SaveNew("member", [NewMember(user, cat) EXCEPT !.status = status,
                                                   !.expiry_date = expiry,
                                                   !.approved_by = approver])

\* Members added through the form, then decided and suspended.
AddNext ==
    \/ \E u \in Applicants, st \in {"pending", "approved"}, e \in FormDates :
           AdminAddMember(u, "annual", st, e, NoUser)
    \/ \E k \in DOMAIN members : ApproveView("admin", k)
    \/ \E sel \in Selections : SuspendAdmin("admin", sel)
    \/ Tick(365)

AddSpec == LifeInit /\ [][AddNext]_vars

\* Approval of members of every category the category table accepts.
DurationNext ==
    \/ \E c \in AcceptedCategories : CreateMember("u1", c)
    \/ \E a \in Staff, k \in DOMAIN members : ApproveView(a, k)
    \/ \E sel \in Selections : ApproveAdmin("admin", sel)
    \/ \E sel \in Selections : SuspendAdmin("admin", sel)
    \/ \E d \in SampleDays : Tick(d)

DurationSpec == LifeInit /\ [][DurationNext]_vars

(* ------------------- the decision views, concurrently ----------------- *)
(* approve_member and reject_member read the member, write it back with     *)
(* save() and then write the audit row and the notification, each in its    *)
(* own statement: no transaction, no select_for_update, no condition on     *)
(* the UPDATE. Other requests are served between the statements.            *)

\* The requests between their SELECT and their last INSERT.
InFlight == {c \in Callers : inst[c].pc # "idle"}

\* get_object_or_404(Member, id=k, status='pending'): the request holds the
\* row as it is stored now, or ends with 404.
LoadForDecision(c, op, actor, k, reason) ==
    /\ inst[c].pc = "idle"
    /\ k \in DOMAIN members
    /\ Len(audit) + Cardinality(InFlight) < MaxAudit
    /\ IF members[k].status = "pending"
       THEN /\ inst' = [inst EXCEPT ![c] =
                           [pc |-> "loaded", kind |-> "member", row |-> members[k],
                            err |-> "none", op |-> op, actor |-> actor, pk |-> k,
                            reason |-> reason]]
            /\ last' = Did("load", "member", "none", 0)
       ELSE /\ inst' = inst
            /\ last' = Did(op, "member", "404", 0)
    /\ UNCHANGED <<now, members, receipts, certificates, autoinc, created,
                   issued, everApproved, lastFailed, side>>

\* The assignments to the loaded instance and member.save(): an UPDATE of
\* every column of the row with the primary key of the instance.
SaveDecision(c) ==
    LET r   == inst[c]
        row == IF r.op = "approve" THEN Approved(r.row, r.actor)
               ELSE RejectedByView(r.row, r.reason)
    IN  /\ r.pc = "loaded"
        /\ members' = [members EXCEPT ![r.pk] = row]
        /\ everApproved' = everApproved
                           \cup (IF row.status = "approved" THEN {r.pk} ELSE {})
        /\ inst' = [inst EXCEPT ![c] = [r EXCEPT !.pc = "saved", !.row = row]]
        /\ last' = Did("save", "member", "none", 1)
        /\ UNCHANGED <<now, receipts, certificates, autoinc, created, issued,
                       lastFailed, side>>

\* AuditLog.objects.create(...)
AuditDecision(c) ==
    LET r == inst[c]
    IN  /\ r.pc = "saved"
        /\ audit' = Append(audit, AuditRow(r.actor, r.op, "Member", r.pk))
        /\ inst' = [inst EXCEPT ![c] = [r EXCEPT !.pc = "audited"]]
        /\ last' = Did("audit", "member", "none", 0)
        /\ UNCHANGED <<now, members, receipts, certificates, autoinc, created,
                       issued, everApproved, lastFailed, notifications,
                       payments, users, rest>>

\* Notification.objects.create(...), and the redirect that ends the request.
NotifyDecision(c) ==
    LET r == inst[c]
    IN  /\ r.pc = "audited"
        /\ notifications' =
               Append(notifications,
                      NotificationRow(r.row.user,
                                      IF r.op = "approve" THEN "Membership Approved"
                                      ELSE "Membership Application Rejected"))
        /\ inst' = [inst EXCEPT ![c] = Idle]
        /\ last' = Did(r.op, "member", "none", 1)
        /\ UNCHANGED <<now, members, receipts, certificates, autoinc, created,
                       issued, everApproved, lastFailed, audit, payments, users,
                       rest>>

RaceNext ==
    \/ CreateMember("u1", "annual")
    \/ \E c \in Callers, a \in Staff, k \in DOMAIN members :
           LoadForDecision(c, "approve", a, k, "")
    \/ \E c \in Callers, a \in Staff, k \in DOMAIN members :
           LoadForDecision(c, "reject", a, k, "incomplete")
    \/ \E c \in Callers : SaveDecision(c)
    \/ \E c \in Callers : AuditDecision(c)
    \/ \E c \in Callers : NotifyDecision(c)

RaceSpec == LifeInit /\ [][RaceNext]_vars

(* ---------------------------- the audit log --------------------------- *)

\* The frame of a request that writes only the audit log.
AuditOnly(op, err) ==
    /\ last' = Did(op, "audit", err, 0)
    /\ UNCHANGED <<now, members, receipts, certificates, autoinc, created,
                   issued, everApproved, inst, lastFailed, notifications,
                   payments, users, rest>>

\* login_view with the credentials of an active user.
LoginView(u) ==
    /\ u \in users
    /\ Len(audit) < MaxAudit
    /\ audit' = Append(audit, AuditRow(u, "login", "User", u))
    /\ AuditOnly("login", "none")

\* login_view with credentials authenticate() rejects.
FailedLogin ==
    /\ Len(audit) < MaxAudit
    /\ audit' = Append(audit, AuditRow(NoUser, "login", "User", "failed"))
    /\ AuditOnly("login", "invalid")

\* logout_view
LogoutView(u) ==
    /\ u \in users
    /\ Len(audit) < MaxAudit
    /\ audit' = Append(audit, AuditRow(u, "logout", "User", u))
    /\ AuditOnly("logout", "none")

\* What a change form of the audit log can be given for the action column.
ACTION_CHOICES ==
    {"create", "update", "delete", "approve", "reject", "payment", "login", "logout"}

\* AuditLogAdmin, add view: has_add_permission is False.
AdminAddAuditLog(actor) ==
    /\ actor \in users
    /\ audit' = audit
    /\ AuditOnly("add", "403")

\* AuditLogAdmin, delete view: has_delete_permission is False.
AdminDeleteAuditLog(actor, i) ==
    /\ actor \in users
    /\ i \in 1..Len(audit)
    /\ audit' = audit
    /\ AuditOnly("delete", "403")

\* AuditLogAdmin, change view: the change permission is the default one and
\* every column but created_at is an editable field of the form.
AdminChangeAuditLog(actor, i, action) ==
    /\ actor \in users
    /\ i \in 1..Len(audit)
    /\ audit' = [audit EXCEPT ![i].action = action]
    /\ AuditOnly("change", "none")

\* s without the elements of the sequence that refer to the user u.
RECURSIVE WithoutRecipient(_, _)
WithoutRecipient(s, u) ==
    IF s = <<>> THEN <<>>
    ELSE IF Head(s).recipient = u THEN WithoutRecipient(Tail(s), u)
    ELSE <<Head(s)>> \o WithoutRecipient(Tail(s), u)

\* UserAdmin, delete view: the rows that refer to the user go with it
\* (CASCADE: its member profile and all that hangs on it, its
\* notifications) or lose the reference (SET_NULL: Member.approved_by,
\* AuditLog.user).
DeleteUser(actor, u) ==
    LET gone == {k \in DOMAIN members : members[k].user = u}
        paid == {p \in DOMAIN payments : payments[p].member \in gone}
    IN  /\ actor \in users /\ u \in users
        /\ users' = users \ {u}
        /\ members' = [k \in DOMAIN members \ gone |->
                          IF members[k].approved_by = u
                          THEN [members[k] EXCEPT !.approved_by = NoUser]
                          ELSE members[k]]
        /\ certificates' = Drop(certificates,
                                {c \in DOMAIN certificates : certificates[c].member \in gone})
        /\ payments' = Drop(payments, paid)
        /\ receipts' = Drop(receipts,
                            {r \in DOMAIN receipts : receipts[r].payment \in paid})
        /\ documents' = Drop(documents,
                             {x \in DOMAIN documents : documents[x].member \in gone})
        /\ renewals' = Drop(renewals,
                            {x \in DOMAIN renewals :
                                \/ renewals[x].member \in gone
                                \/ renewals[x].payment \in {Some(p) : p \in paid}})
        /\ notifications' = WithoutRecipient(notifications, u)
        /\ audit' = [i \in 1..Len(audit) |->
                        IF audit[i].user = u THEN [audit[i] EXCEPT !.user = NoUser]
                        ELSE audit[i]]
        /\ last' = Did("delete", "user", "none", 1)
        /\ UNCHANGED <<now, autoinc, created, issued, everApproved, inst,
                       lastFailed, catalog>>

\* The requests that write the audit log, or try to, and the deletion of
\* the users its rows refer to.
AuditNext ==
    \/ "u1" \in users /\ CreateMember("u1", "annual")
    \/ \E u \in Staff : LoginView(u)
    \/ FailedLogin
    \/ \E u \in Staff : LogoutView(u)
    \/ \E a \in Staff \cap users, k \in DOMAIN members : ApproveView(a, k)
    \/ \E a \in Staff \cap users, k \in DOMAIN members : RejectView(a, k, "incomplete")
    \/ \E a \in Staff : AdminAddAuditLog(a)
    \/ \E a \in Staff, i \in 1..Len(audit) : AdminDeleteAuditLog(a, i)
    \/ \E a \in Staff, i \in 1..Len(audit) : AdminChangeAuditLog(a, i, "update")
    \/ \E a \in Staff, u \in Staff \cup {"u1"} : DeleteUser(a, u)

AuditSpec == LifeInit /\ [][AuditNext]_vars

(* ------------------------------ payments ------------------------------ *)

PaymentStatuses ==
    {"initiated", "pending", "completed", "failed", "cancelled", "refunded"}

\* A freshly constructed Payment of a member: the column defaults.
NewPayment(member) ==
    [member |-> member, status |-> "initiated", completed_at |-> Null]

\* The frame of a request that writes only rows of the payments table.
PaymentsOnly(op, affected) ==
    /\ last' = Did(op, "payment", "none", affected)
    /\ UNCHANGED <<now, members, receipts, certificates, created, issued,
                   everApproved, inst, lastFailed, audit, notifications, users, rest>>

\* PaymentAdmin, add view: member and status are fields of the form,
\* completed_at is read-only.
CreatePayment(member, status) ==
    /\ member \in DOMAIN members
    /\ created < MaxCreates
    /\ payments' = Put(payments, autoinc["payment"] + 1,
                       [NewPayment(member) EXCEPT !.status = status])
    /\ autoinc' = [autoinc EXCEPT !["payment"] = @ + 1]
    /\ last' = Did("create", "payment", "none", 1)
    /\ created' = created + 1
    /\ UNCHANGED <<now, members, receipts, certificates, issued, everApproved,
                   inst, lastFailed, audit, notifications, users, rest>>

\* A status filter that keeps the whole selection.
PaymentsInAny(sel, statuses) == sel

\* The payments of the selection in one of the given statuses.
PaymentsIn(sel, statuses) == {k \in sel : payments[k].status \in statuses}

\* The admin action "Mark as completed".
MarkAsCompleted(sel) ==
    /\ sel # {} /\ sel \subseteq DOMAIN payments
    /\ payments' = [k \in DOMAIN payments |->
                       IF k \in PaymentsIn(sel, {"pending"})
                       THEN [payments[k] EXCEPT !.status = "completed",
                                                !.completed_at = Some(now)]
                       ELSE payments[k]]
    /\ autoinc' = autoinc
    /\ PaymentsOnly("mark_as_completed", Cardinality(PaymentsIn(sel, {"pending"})))

\* The admin action "Mark as failed".
MarkAsFailed(sel) ==
    /\ sel # {} /\ sel \subseteq DOMAIN payments
    /\ payments' = [k \in DOMAIN payments |->
                       IF k \in PaymentsIn(sel, {"initiated", "pending"})
                       THEN [payments[k] EXCEPT !.status = "failed"]
                       ELSE payments[k]]
    /\ autoinc' = autoinc
    /\ PaymentsOnly("mark_as_failed",
                    Cardinality(PaymentsIn(sel, {"initiated", "pending"})))

\* PaymentAdmin, change view: status is a field of the form, completed_at
\* is read-only.
AdminChangePayment(k, status) ==
    /\ k \in DOMAIN payments
    /\ payments' = [payments EXCEPT ![k].status = status]
    /\ autoinc' = autoinc
    /\ PaymentsOnly("change", 1)

PaymentSelections == SUBSET (DOMAIN payments) \ {{}}

PayNext ==
    \/ CreateMember("u1", "annual")
    \/ \E m \in DOMAIN members, st \in PaymentStatuses : CreatePayment(m, st)
    \/ \E sel \in PaymentSelections : MarkAsCompleted(sel)
    \/ \E sel \in PaymentSelections : MarkAsFailed(sel)
    \/ \E k \in DOMAIN payments, st \in PaymentStatuses : AdminChangePayment(k, st)
    \/ Tick(365)

PaySpec == LifeInit /\ [][PayNext]_vars

(* ------------------- the rows that hang on a member ------------------- *)

\* MemberDocumentAdmin, add view: a document of a member.
CreateDocument(member) ==
    /\ member \in DOMAIN members
    /\ created < MaxCreates
    /\ documents' = Put(documents, autoinc["document"] + 1, [member |-> member])
    /\ autoinc' = [autoinc EXCEPT !["document"] = @ + 1]
    /\ created' = created + 1
    /\ last' = Did("create", "document", "none", 1)
    /\ UNCHANGED <<now, members, receipts, certificates, issued, everApproved,
                   inst, lastFailed, audit, notifications, payments, users,
                   renewals, catalog>>

\* MembershipRenewalAdmin, add view: a renewal of a member, with the payment
\* that paid for it or with none; a payment pays for one renewal at most
\* (OneToOneField).
CreateRenewal(member, payment) ==
    LET taken == payment # Null
                 /\ \E x \in DOMAIN renewals : renewals[x].payment = payment
    IN  /\ member \in DOMAIN members
        /\ payment # Null => payment[1] \in DOMAIN payments
        /\ created < MaxCreates
        /\ IF taken
           THEN /\ UNCHANGED <<renewals, autoinc, created>>
                /\ last' = Did("create", "renewal", "dup_payment", 0)
           ELSE /\ renewals' = Put(renewals, autoinc["renewal"] + 1,
                                   [member |-> member, payment |-> payment])
                /\ autoinc' = [autoinc EXCEPT !["renewal"] = @ + 1]
                /\ created' = created + 1
                /\ last' = Did("create", "renewal", "none", 1)
        /\ UNCHANGED <<now, members, receipts, certificates, issued, everApproved,
                       inst, lastFailed, audit, notifications, payments, users,
                       documents, catalog>>

\* Members, the rows that hang on them, and the deletion of members.
OwnedNext ==
    \/ \E u \in Applicants : CreateMember(u, "annual")
    \/ \E m \in DOMAIN members : CreatePayment(m, "initiated")
    \/ \E p \in DOMAIN payments : CreateReceipt(p)
    \/ \E m \in DOMAIN members : CreateCertificate(m)
    \/ \E m \in DOMAIN members : CreateDocument(m)
    \/ \E m \in DOMAIN members, p \in {Null} \cup {Some(x) : x \in DOMAIN payments} :
           CreateRenewal(m, p)
    \/ DeleteMember

OwnedSpec == LifeInit /\ [][OwnedNext]_vars

(* --------------- categories, countries and regions -------------------- *)

\* A collector that finds no protecting member.
ReferencingNone(column, v) == {}

\* The members whose foreign key `column` refers to the row v: with
\* on_delete=PROTECT they make the deletion of v fail (ProtectedError).
Referencing(column, v) == {k \in DOMAIN members : members[k][column] = v}

\* The frame of a request that deletes rows of the three tables, or fails.
CatalogOnly(kind, err) ==
    /\ last' = Did("delete", kind, err, IF err = "none" THEN 1 ELSE 0)
    /\ UNCHANGED <<now, members, receipts, certificates, autoinc, created,
                   issued, everApproved, inst, lastFailed, audit, notifications,
                   payments, users, documents, renewals>>

\* MembershipCategoryAdmin, delete view.
DeleteCategory(c) ==
    /\ c \in catalog.categories
    /\ IF Referencing("category", c) # {}
       THEN catalog' = catalog /\ CatalogOnly("category", "protected")
       ELSE /\ catalog' = [catalog EXCEPT !.categories = @ \ {c}]
            /\ CatalogOnly("category", "none")

\* RegionAdmin, delete view.
DeleteRegion(r) ==
    /\ r \in DOMAIN catalog.regions
    /\ IF Referencing("region", r) # {}
       THEN catalog' = catalog /\ CatalogOnly("region", "protected")
       ELSE /\ catalog' = [catalog EXCEPT !.regions = Drop(@, {r})]
            /\ CatalogOnly("region", "none")

\* CountryAdmin, delete view: the regions of the country are collected
\* with it (Region.country is on_delete=CASCADE), and a member that refers
\* to the country or to one of these regions protects them all.
DeleteCountry(n) ==
    LET inside == {r \in DOMAIN catalog.regions : catalog.regions[r] = n}
    IN  /\ n \in catalog.countries
        /\ IF Referencing("country", n) # {}
              \/ \E r \in inside : Referencing("region", r) # {}
           THEN catalog' = catalog /\ CatalogOnly("country", "protected")
           ELSE /\ catalog' = [catalog EXCEPT !.countries = @ \ {n},
                                              !.regions = Drop(@, inside)]
                /\ CatalogOnly("country", "none")

\* A member can be created while the rows it refers to exist.
CanRegister(cat) ==
    /\ cat \in catalog.categories
    /\ HomeCountry \in catalog.countries
    /\ HomeRegion \in DOMAIN catalog.regions

CatalogNext ==
    \/ \E u \in Applicants, c \in Categories : CanRegister(c) /\ CreateMember(u, c)
    \/ DeleteMember
    \/ \E c \in Categories : DeleteCategory(c)
    \/ \E r \in DOMAIN RegionCountry : DeleteRegion(r)
    \/ \E n \in Countries : DeleteCountry(n)

CatalogSpec == LifeInit /\ [][CatalogNext]_vars

(* ======================== the claims, C1 to C10 ====================== *)

\* The number an identifier ends in, and the scope (prefix and year) before it.
NumberOf(id) == ParseInt(LastSegment(id))
ScopeOf(id) == SubSeq(id, 1, Len(id) - Len(LastSegment(id)))

MaxOf(S) == CHOOSE x \in S : \A y \in S : y <= x

\* n in 0..9999 written with four digits.
FourDigits(n) ==
    <<Digits[(n \div 1000) + 1], Digits[((n \div 100) % 10) + 1],
      Digits[((n \div 10) % 10) + 1], Digits[(n % 10) + 1]>>

\* "KTS-<year>-" for the year of the clock.
MemberScopeNow == <<"K", "T", "S", "-">> \o IntToStr(YearOf(now)) \o <<"-">>

\* The numbers of the members stored in the scope of the current year.
MemberNumbersNow ==
    {NumberOf(members[j].membership_id) :
        j \in {i \in DOMAIN members : ScopeOf(members[i].membership_id) = MemberScopeNow}}

\* The identifiers of the rows a step inserts.
InsertedIds ==
    {members'[k].membership_id : k \in DOMAIN members' \ DOMAIN members}
    \cup {receipts'[k].receipt_number : k \in DOMAIN receipts' \ DOMAIN receipts}
    \cup {certificates'[k].certificate_number :
              k \in DOMAIN certificates' \ DOMAIN certificates}

\* C1: callers whose save() calls overlap never hold the same computed
\* identifier for the same table: any two instances between their
\* read of the maximum and their insert carry different identifiers.
C1_ConcurrentCallersDistinct ==
    \A c, d \in Callers :
        (c # d /\ inst[c].pc = "insert" /\ inst[d].pc = "insert"
         /\ inst[c].kind = inst[d].kind)
        => inst[c].row[IdColumn(inst[c].kind)] # inst[d].row[IdColumn(inst[d].kind)]

\* C2: a member created, one request at a time, in a year whose scope is
\* empty gets KTS-<year>-0001; one created in a scope whose largest number
\* m is below 9999 gets KTS-<year>-<m+1 on four digits>.
C2_FirstAndNextNumber ==
    [][\A k \in DOMAIN members' \ DOMAIN members :
           /\ MemberNumbersNow = {}
                => members'[k].membership_id = MemberScopeNow \o <<"0", "0", "0", "1">>
           /\ (MemberNumbersNow # {} /\ MaxOf(MemberNumbersNow) < 9999)
                => members'[k].membership_id
                     = MemberScopeNow \o FourDigits(MaxOf(MemberNumbersNow) + 1)]_vars

\* C2 witness: the second member of 2025 was just created as KTS-2025-0002
\* beside KTS-2025-0001.
C2_Witness ==
    /\ last.op = "create" /\ last.kind = "member" /\ last.err = "none"
    /\ \E j, k \in DOMAIN members :
           /\ members[j].membership_id
                = <<"K", "T", "S", "-", "2", "0", "2", "5", "-", "0", "0", "0", "1">>
           /\ members[k].membership_id
                = <<"K", "T", "S", "-", "2", "0", "2", "5", "-", "0", "0", "0", "2">>

\* C3: every identifier a creation stores was never stored before, and its
\* number is above every number issued earlier in its scope, deleted rows
\* included.
C3_NeverReissued ==
    [][\A id \in InsertedIds :
           /\ id \notin issued
           /\ \A old \in issued :
                  ScopeOf(old) = ScopeOf(id) => NumberOf(old) < NumberOf(id)]_vars

\* C4: in a scope whose largest number m is 9999 or more, the creation of a
\* member (for a user with no profile yet) stores a row numbered m + 1.
C4_WidensPastOverflow ==
    [][\A u \in MemberUsers :
           (/\ CreateMember(u, "annual")
            /\ \A j \in DOMAIN members : members[j].user # u
            /\ MemberNumbersNow # {}
            /\ MaxOf(MemberNumbersNow) >= 9999)
           => \E k \in DOMAIN members' \ DOMAIN members :
                  NumberOf(members'[k].membership_id) = MaxOf(MemberNumbersNow) + 1]_vars

\* C5: the first creation that succeeds in a scope after a creation failed
\* there stores the identifier the failed creation had computed.
C5_FailedNumberReused ==
    [][\A kind \in Kinds : \A id \in InsertedIds :
           (lastFailed[kind] # <<>> /\ ScopeOf(lastFailed[kind]) = ScopeOf(id))
           => id = lastFailed[kind]]_vars

\* C6: a save() called again after the insert of a new member failed on a
\* duplicate membership_id submits another identifier than the rejected one.
C6_RetryAllocatesAgain ==
    [][\A c \in Callers :
           (/\ inst[c].pc = "failed" /\ inst[c].kind = "member"
            /\ inst[c].err = "dup_id"
            /\ inst'[c].pc = "insert")
           => inst'[c].row.membership_id # inst[c].row.membership_id]_vars

\* C7: a row is inserted with a non-empty identifier, and no request changes
\* the identifier of a stored member, receipt or certificate.
C7_IdentifierImmutable ==
    [][/\ \A id \in InsertedIds : id # <<>>
       /\ \A k \in DOMAIN members \cap DOMAIN members' :
              members'[k].membership_id = members[k].membership_id
       /\ \A k \in DOMAIN receipts \cap DOMAIN receipts' :
              receipts'[k].receipt_number = receipts[k].receipt_number
       /\ \A k \in DOMAIN certificates \cap DOMAIN certificates' :
              certificates'[k].certificate_number
                = certificates[k].certificate_number]_vars

\* C7 witness: a member was approved and then suspended, a receipt and a
\* certificate were saved again, and other rows were created since.
C7_Witness ==
    /\ \E k \in DOMAIN members : members[k].status = "suspended"
    /\ \E k \in DOMAIN receipts : receipts[k].sent_via_email
    /\ \E k \in DOMAIN certificates : ~certificates[k].is_active

\* C8: a member has an expiry_date exactly when its status was ever
\* 'approved'.
C8_ExpiryIffEverApproved ==
    \A k \in DOMAIN members :
        (members[k].expiry_date # Null) <=> (k \in everApproved)

\* C9: approving a pending member, by the view or by the admin action,
\* leaves it approved, with the time of the approval, the acting user as
\* approver and the day of the approval plus 30 days per month of its
\* category as expiry date: 360 days for the 12 months of "annual".
C9_ApproveSetsFields ==
    [][\A a \in Staff : \A k \in DOMAIN members :
           (/\ members[k].status = "pending"
            /\ \/ ApproveView(a, k)
               \/ \E sel \in Selections : k \in sel /\ ApproveAdmin(a, sel))
           => /\ members'[k].status = "approved"
              /\ members'[k].approval_date = Some(now)
              /\ members'[k].approved_by = a
              /\ members'[k].expiry_date
                   = Some(IF members[k].category = "annual" THEN now + 360
                          ELSE now + 30 * DurationMonths(members[k].category))]_vars

\* C9 witness: an annual member was just approved on day 365 and expires on
\* day 725.
C9_Witness ==
    /\ last.op \in {"approve_view", "approve_admin"} /\ last.affected >= 1
    /\ now = 365
    /\ \E k \in DOMAIN members :
           /\ members[k].status = "approved" /\ members[k].category = "annual"
           /\ members[k].approval_date = Some(365)
           /\ members[k].expiry_date = Some(725)

\* C10: rejecting a pending member leaves it rejected with the acting user
\* as approver and a rejection reason: the one posted to the view, a
\* non-empty one after the admin action.
C10_RejectRecordsReasonAndActor ==
    [][\A a \in Staff : \A k \in DOMAIN members :
           /\ \A r \in Reasons :
                  (members[k].status = "pending" /\ RejectView(a, k, r))
                  => /\ members'[k].status = "rejected"
                     /\ members'[k].rejection_reason = r
                     /\ members'[k].approved_by = a
           /\ (/\ members[k].status = "pending"
               /\ \E sel \in Selections : k \in sel /\ RejectAdmin(a, sel))
              => /\ members'[k].status = "rejected"
                 /\ members'[k].rejection_reason # ""
                 /\ members'[k].approved_by = a]_vars

(* ======================== the claims, C11 to C20 ====================== *)

\* The audit rows a step appends for the member k, and the notifications it
\* appends for the user u.
NewAuditFor(k) ==
    {i \in (Len(audit) + 1)..Len(audit') :
        audit'[i].model_name = "Member" /\ audit'[i].object_id = k}
NewNotificationsFor(u) ==
    {i \in (Len(notifications) + 1)..Len(notifications') :
        notifications'[i].recipient = u}

\* The operations that approve or reject, as `last` names them.
DecisionOps == {"approve_view", "reject_view", "approve_admin", "reject_admin"}

\* C11: a step of an approve or reject operation, through a view or an
\* admin action, leaves the status, expiry_date, approver and rejection
\* reason of every member that is not pending as they were, and appends no
\* audit row for it and no notification for its user.
C11_NotPendingUntouched ==
    [][last'.op \in DecisionOps
         => \A k \in DOMAIN members :
                members[k].status # "pending"
                => /\ members'[k].status = members[k].status
                   /\ members'[k].expiry_date = members[k].expiry_date
                   /\ members'[k].approved_by = members[k].approved_by
                   /\ members'[k].rejection_reason = members[k].rejection_reason
                   /\ NewAuditFor(k) = {}
                   /\ NewNotificationsFor(members[k].user) = {}]_vars

\* C11 witness: the admin action "reject" was just applied to a selection
\* of decided members only, one of them approved, and changed none.
C11_Witness ==
    /\ last.op = "reject_admin" /\ last.affected = 0
    /\ \E k \in DOMAIN members :
           members[k].status = "approved" /\ members[k].rejection_reason = ""

\* C12: an approve or reject operation that met no pending member, and so
\* changed none, ends without an error and reports zero affected rows.
C12_NotPendingIsNoOp ==
    [][(last'.op \in DecisionOps /\ members' = members)
         => (last'.err = "none" /\ last'.affected = 0)]_vars

\* C13: every approve or reject operation, through a view or an admin
\* action, appends exactly one audit row for each member it takes out of
\* pending and exactly one notification for that member's user.
C13_DecisionAuditedAndNotified ==
    [][last'.op \in DecisionOps
         => \A k \in DOMAIN members :
                (members[k].status = "pending" /\ members'[k].status # "pending")
                => /\ Cardinality(NewAuditFor(k)) = 1
                   /\ Cardinality(NewNotificationsFor(members[k].user)) = 1]_vars

\* C14: each member the suspend action changes to suspended gets exactly
\* one audit row appended in the same step.
C14_SuspendAudited ==
    [][last'.op = "suspend_admin"
         => \A k \in DOMAIN members :
                (members[k].status # "suspended" /\ members'[k].status = "suspended")
                => Cardinality(NewAuditFor(k)) = 1]_vars

\* C15: the suspend action leaves every pending member as it was, and the
\* count it reports leaves the pending members of the selection out.
C15_SuspendSkipsPending ==
    [][last'.op = "suspend_admin" => \A a \in Staff : \A sel \in Selections :
           SuspendAdmin(a, sel)
           => /\ \A k \in DOMAIN members :
                     members[k].status = "pending" => members'[k] = members[k]
              /\ last'.affected
                   = Cardinality({k \in sel : members[k].status # "pending"})]_vars

\* C15 witness: the suspend action was just applied to pending members
\* only: it reported zero rows and they are still pending.
C15_Witness ==
    /\ last.op = "suspend_admin" /\ last.affected = 0
    /\ \E k \in DOMAIN members : members[k].status = "pending"

\* C16: the suspend action changes a member only if its status is approved,
\* and the count it reports is that of the approved members it selected.
C16_SuspendOnlyFromApproved ==
    [][last'.op = "suspend_admin" => \A a \in Staff : \A sel \in Selections :
           SuspendAdmin(a, sel)
           => /\ \A k \in DOMAIN members :
                     members[k].status # "approved" => members'[k] = members[k]
              /\ last'.affected
                   = Cardinality({k \in sel : members[k].status = "approved"})]_vars

\* C17: the suspend action leaves the expiry_date, approval_date, approver,
\* rejection reason and membership_id of every member as they were.
C17_SuspendChangesStatusOnly ==
    [][last'.op = "suspend_admin" => \A a \in Staff : \A sel \in Selections :
           SuspendAdmin(a, sel)
           => \A k \in DOMAIN members :
                  /\ members'[k].expiry_date = members[k].expiry_date
                  /\ members'[k].approval_date = members[k].approval_date
                  /\ members'[k].approved_by = members[k].approved_by
                  /\ members'[k].rejection_reason = members[k].rejection_reason
                  /\ members'[k].membership_id = members[k].membership_id]_vars

\* C17 witness: an approved member was just suspended and still carries
\* its expiry date, approval date and approver.
C17_Witness ==
    /\ last.op = "suspend_admin" /\ last.affected >= 1
    /\ \E k \in DOMAIN members :
           /\ members[k].status = "suspended"
           /\ members[k].expiry_date # Null
           /\ members[k].approval_date # Null
           /\ members[k].approved_by \in Staff

\* C18: is_membership_active() is false for every member whose expiry_date
\* is before today, whatever its status, and the passing of time changes no
\* stored status.
C18_ExpiredIsInactive ==
    /\ [](\A k \in DOMAIN members :
              (members[k].expiry_date # Null /\ members[k].expiry_date[1] < now)
              => ~IsMembershipActive(members[k], now))
    /\ [][now' # now
             => \A k \in DOMAIN members : members'[k].status = members[k].status]_vars

\* C18 witness: a member is stored as approved on a day after its expiry
\* date.
C18_Witness ==
    \E k \in DOMAIN members :
        /\ members[k].status = "approved"
        /\ members[k].expiry_date # Null
        /\ members[k].expiry_date[1] < now

\* C19: no step changes or removes a row of the audit log: the log grows
\* at its end only.
C19_AuditAppendOnly ==
    [][/\ Len(audit') >= Len(audit)
       /\ \A i \in 1..Len(audit) : audit'[i] = audit[i]]_vars

\* C20: a payment has a completed_at only if its status is 'completed'.
C20_CompletedAtOnlyWhenCompleted ==
    \A k \in DOMAIN payments :
        payments[k].completed_at # Null => payments[k].status = "completed"

(* ======================== the claims, C21 to C30 ====================== *)

\* C27: approving a pending member through the view and through the admin
\* action, by the same user at the same instant, stores the same status,
\* approval_date, approver and expiry_date: what either path stores is what
\* the other would have stored.
C27_ApprovalPathsAgree ==
    [][last'.op \in {"approve_view", "approve_admin"}
         => \A a \in Staff : \A k \in DOMAIN members :
                (/\ members[k].status = "pending"
                 /\ members'[k].status = "approved"
                 /\ members'[k].approved_by = a)
                => /\ members'[k] = Approved(members[k], a)
                   /\ members'[k] = ApprovedByAdmin(members[k], a)]_vars

\* C27 witness: the admin action just approved a monthly member on day 365.
C27_Witness ==
    /\ last.op = "approve_admin" /\ last.affected >= 1 /\ now = 365
    /\ \E k \in DOMAIN members :
           /\ members[k].status = "approved" /\ members[k].category = "monthly"
           /\ members[k].approval_date = Some(365)

C29_NoReturnToPending ==
    [][\A k \in DOMAIN members \cap DOMAIN members' :
           /\ members[k].status # "pending" => members'[k].status # "pending"
           /\ (members[k].status # "approved" /\ members'[k].status = "approved")
                => members[k].status = "pending"]_vars

\* C29 witness: an approve operation was just tried on rejected members
\* only and changed none.
C29_Witness ==
    /\ last.op \in {"approve_view", "approve_admin"} /\ last.affected = 0
    /\ DOMAIN members # {}
    /\ \A k \in DOMAIN members : members[k].status = "rejected"

\* C30: mark_as_completed changes only pending payments and mark_as_failed
\* only initiated or pending ones, and each reports the number of payments
\* it changed.
C30_PaymentActionsFiltered ==
    [][/\ last'.op = "mark_as_completed"
            => \A k \in DOMAIN payments :
                   payments[k].status # "pending" => payments'[k] = payments[k]
       /\ last'.op = "mark_as_failed"
            => \A k \in DOMAIN payments :
                   payments[k].status \notin {"initiated", "pending"}
                   => payments'[k] = payments[k]
       /\ last'.op \in {"mark_as_completed", "mark_as_failed"}
            => last'.affected
                 = Cardinality({k \in DOMAIN payments : payments'[k] # payments[k]})]_vars

\* C30 witness: "Mark as completed" was just applied while every payment
\* was initiated, and changed none.
C30_Witness ==
    /\ last.op = "mark_as_completed" /\ last.affected = 0
    /\ DOMAIN payments # {}
    /\ \A k \in DOMAIN payments :
           payments[k].status = "initiated" /\ payments[k].completed_at = Null

\* C24: no two stored members share a membership_id, no two receipts a
\* receipt_number and no two certificates a certificate_number, whatever
\* the interleaving of concurrent creations; and a creation that fails on
\* a duplicate identifier stores nothing.
C24_IdentifiersUnique ==
    /\ [](\A kind \in Kinds : \A j, k \in DOMAIN Table(kind) :
              j # k => Table(kind)[j][IdColumn(kind)] # Table(kind)[k][IdColumn(kind)])
    /\ [][(last'.op = "create" /\ last'.err = "dup_id")
             => UNCHANGED <<members, receipts, certificates>>]_vars

\* C24 witness: two members are stored and the creation served last, which
\* had computed an identifier that was stored meanwhile, failed.
C24_Witness ==
    /\ last.op = "create" /\ last.kind = "member" /\ last.err = "dup_id"
    /\ Cardinality(DOMAIN members) >= 2

\* C23: every member a step creates is stored pending, with a non-empty
\* membership_id and with no approval_date, no expiry_date and no approver.
C23_CreatedPending ==
    [][\A k \in DOMAIN members' \ DOMAIN members :
           /\ members'[k].status = "pending"
           /\ members'[k].membership_id # <<>>
           /\ members'[k].approval_date = Null
           /\ members'[k].expiry_date = Null
           /\ members'[k].approved_by = NoUser]_vars

\* C26: a member that an approve step takes out of pending is active, by
\* is_membership_active(), right after that step, whatever the
\* duration_months of its category.
C26_ActiveOnceApproved ==
    [][last'.op \in {"approve_view", "approve_admin"}
         => \A k \in DOMAIN members :
                (members[k].status = "pending" /\ members'[k].status = "approved")
                => IsMembershipActive(members'[k], now')]_vars

\* The audit rows of the member k with the given action, and the
\* notifications of the user u with the given title.
AuditOf(k, action) ==
    {i \in 1..Len(audit) :
        audit[i].model_name = "Member" /\ audit[i].object_id = k
        /\ audit[i].action = action}
NotificationsOf(u, title) ==
    {i \in 1..Len(notifications) :
        notifications[i].recipient = u /\ notifications[i].title = title}

\* C25: of an approve and a reject request that overlap on one pending
\* member at most one takes effect: the member never has both an approve
\* and a reject audit row, nor both notifications, and once the requests
\* have ended its fields are those of an approval alone or of a rejection
\* alone.
C25_OneDecisionTakesEffect ==
    \A k \in DOMAIN members :
        /\ AuditOf(k, "approve") = {} \/ AuditOf(k, "reject") = {}
        /\ \/ NotificationsOf(members[k].user, "Membership Approved") = {}
           \/ NotificationsOf(members[k].user, "Membership Application Rejected") = {}
        /\ InFlight = {}
             => /\ members[k].status = "approved"
                     => members[k].rejection_reason = ""
                /\ members[k].status = "rejected"
                     => /\ members[k].approved_by = NoUser
                        /\ members[k].approval_date = Null
                        /\ members[k].expiry_date = Null

\* C22: after the deletion of a member no certificate, payment, document or
\* renewal refers to it, and every receipt and every renewal that is left
\* refers to a payment that is left.
C22_DeleteMemberCascades ==
    [][\A k \in DOMAIN members \ DOMAIN members' :
           /\ \A x \in DOMAIN certificates' : certificates'[x].member # k
           /\ \A x \in DOMAIN payments' : payments'[x].member # k
           /\ \A x \in DOMAIN documents' : documents'[x].member # k
           /\ \A x \in DOMAIN renewals' :
                  /\ renewals'[x].member # k
                  /\ renewals'[x].payment # Null
                       => renewals'[x].payment[1] \in DOMAIN payments'
           /\ \A x \in DOMAIN receipts' :
                  receipts'[x].payment \in DOMAIN payments']_vars

\* C22 witness: the only member was just deleted; a payment with its
\* receipt had been created for it, and no payment and no receipt is left.
C22_Witness ==
    /\ last.op = "delete" /\ last.kind = "member"
    /\ autoinc["payment"] >= 1 /\ autoinc["receipt"] >= 1
    /\ payments = <<>> /\ receipts = <<>>

\* C21: the deletion of a category, a country or a region that a member
\* refers to fails: the row is still there afterwards, with every region,
\* and no member has changed.
C21_ReferencedRowsProtected ==
    [][last'.op = "delete"
         => /\ \A c \in Categories :
                   (DeleteCategory(c) /\ \E k \in DOMAIN members : members[k].category = c)
                   => /\ last'.err = "protected"
                      /\ catalog' = catalog /\ members' = members
            /\ \A r \in DOMAIN RegionCountry :
                   (DeleteRegion(r) /\ \E k \in DOMAIN members : members[k].region = r)
                   => /\ last'.err = "protected"
                      /\ catalog' = catalog /\ members' = members
            /\ \A n \in Countries :
                   (DeleteCountry(n) /\ \E k \in DOMAIN members : members[k].country = n)
                   => /\ last'.err = "protected"
                      /\ catalog' = catalog /\ members' = members]_vars

\* C21 witness: the deletion of the country of a stored member was just
\* refused, after that of another country had gone through.
C21_Witness ==
    /\ last.op = "delete" /\ last.kind = "country" /\ last.err = "protected"
    /\ DOMAIN members # {}
    /\ catalog.countries = {HomeCountry}

=============================================================================
